---------------------------- MODULE Spec2Model ----------------------------
(***************************************************************************)
(* Model of the JTAG chain-management engine of src/src/jtag.rs            *)
(* (JtagAdapter over a RawJtagIo), run against a simulated scan chain.     *)
(*                                                                         *)
(* One step of the model is one statement of the engine: a call, a return  *)
(* or one raw shift_bit clock.  `pc` is the call stack (innermost frame    *)
(* first); a frame "f:n" stands at line n of function f of jtag.rs.        *)
(***************************************************************************)
EXTENDS Naturals, Sequences, FiniteSets

(***************************************************************************)
(* Program constants.                                                      *)
(***************************************************************************)
IdcodeBits == 32
TapsCap == 32
IrBitsCap == 8
DrBitsCap == 64
TrueBoolsLen == 64
StatusMax == 255

(***************************************************************************)
(* Bounds of the model.                                                    *)
(***************************************************************************)
\* largest bit length a caller requests from shift_ir / shift_dr
MaxLen == 2
\* number of raw shift_bit calls that are made to fail in one run with
\* fault injection
MaxFails == 1
\* number of times the simulated chain is exchanged for another one
MaxRewires == 1
\* number of register accesses (shift_ir, shift_dr) called after a bring-up;
\* one less before the first bring-up
MaxAccesses == 2
\* number of idcodes the Vec of init can hold; larger than every simulated
\* chain
MaxIdcodes == 4

\* The simulated chains: the instruction-register length of every device,
\* the device nearest to data-out first (it is the first one a scan sees).
Chains == { <<2>>, <<2, 2>>, <<2, 4, 1>>, <<1, 2>> }

\* length of the data register a simulated device exposes when its
\* instruction is not BYPASS
DrLen == MaxLen

VARIABLES
    state,      \* JtagAdapter.state : "Unknown" | "Idle" | "Shift"
    bits,       \* JtagAdapter.bits  : the capture buffer, first captured bit first
    params,     \* JtagAdapter.params: [pre, pos, select, len, taps]
    pc,         \* call stack of the running operation, <<>> at rest
    k,          \* index of the next bit of the primitive at the top of pc
    args,       \* arguments of the primitive at the top of pc
    loc,        \* locals of the running operation
    call,       \* the public call being (or last) executed
    ret,        \* result of the last public call
    chain,      \* simulated chain: IR length of every device
    tap,        \* simulated chain: state of the 16-state TAP controller
    irsr,       \* simulated chain: instruction-register scan path, data-out end first
    drsr,       \* simulated chain: data-register scan path, data-out end first
    line,       \* what drives the data-out line: "chain", or a fault of the line
    inject,     \* the bench injects pin failures in this run
    ready,      \* what the caller has completed on the chain now on the bench:
                \* "no" bring-up, "init" (init returned Ok), "selected"
                \* (select_tap returned Ok after it)
    fails,      \* raw shift_bit calls failed so far
    rewires,    \* chain exchanges so far
    accesses,   \* register accesses called since init was last called
    log,        \* raw shift_bit calls of the running (or last) public call
    prev        \* the register access completed last before `call` under the
                \* selection in force, with its result

device == <<tap, irsr, drsr>>
vars == <<state, bits, params, pc, k, args, loc, call, ret,
          chain, tap, irsr, drsr, line, inject, ready, fails, rewires, accesses, log, prev>>

(***************************************************************************)
(* Bit-level helpers.                                                      *)
(***************************************************************************)
RECURSIVE Pow2(_)
Pow2(n) == IF n = 0 THEN 1 ELSE 2 * Pow2(n - 1)

Rep(b, n) == [i \in 1..n |-> b]

RECURSIVE Sum(_, _, _)
\* s[a] + ... + s[b-1] of a function s over 0..
Sum(s, a, b) == IF a >= b THEN 0 ELSE s[a] + Sum(s, a + 1, b)

RECURSIVE SeqSum(_)
SeqSum(s) == IF s = <<>> THEN 0 ELSE Head(s) + SeqSum(Tail(s))

\* `value >> i & 1 == 1` for i in 0..len-1 (shift_ir / shift_dr)
tdi_bits(value, len) == [i \in 1..len |-> (value \div Pow2(i - 1)) % 2 = 1]

RECURSIVE LimbValue(_, _, _)
\* value of bits b[from+1 .. from+n], b[from+1] being the least significant
LimbValue(b, from, n) ==
    IF n = 0 THEN 0
    ELSE (IF from + 1 <= Len(b) /\ b[from + 1] THEN 1 ELSE 0)
         + 2 * LimbValue(b, from + 1, n - 1)

\* a decoder that takes the first bit for the most significant one
load_msb_first(b, width) ==
    LET r == [i \in 1..Len(b) |-> b[Len(b) + 1 - i]]
    IN  IF width <= 16 THEN << LimbValue(r, 0, width) >>
        ELSE [j \in 1..(width \div 16) |-> LimbValue(r, 16 * (j - 1), 16)]

\* BitField::load_le::<uN>: the little-endian value of a bit sequence, kept
\* as 16-bit limbs (least significant limb first) so that 32- and 64-bit
\* values stay exact.  A u8 is one limb below 256.
load_le(b, width) ==
    IF width <= 16 THEN << LimbValue(b, 0, width) >>
    ELSE [j \in 1..(width \div 16) |-> LimbValue(b, 16 * (j - 1), 16)]

\* load_le panics on an empty region and on one wider than the integer
load_le_ok(b, width) == Len(b) >= 1 /\ Len(b) <= width

\* an integer below 2^16 as an unsigned value of `width` bits
Limbs(v, width) ==
    IF width <= 16 THEN << v >>
    ELSE [j \in 1..(width \div 16) |-> IF j = 1 THEN v ELSE 0]

AllOnes32 == << 65535, 65535 >>

(***************************************************************************)
(* The simulated chain behind RawJtagIo: the IEEE 1149.1 TAP controller    *)
(* and two scan paths that mirror data-in to data-out.                     *)
(***************************************************************************)
TapStates == { "TLR", "RTI", "SelDR", "CapDR", "ShDR", "Ex1DR", "PauDR", "Ex2DR", "UpdDR",
               "SelIR", "CapIR", "ShIR", "Ex1IR", "PauIR", "Ex2IR", "UpdIR" }

TapNext(s, tms) ==
    CASE s = "TLR"   -> IF tms THEN "TLR"   ELSE "RTI"
      [] s = "RTI"   -> IF tms THEN "SelDR" ELSE "RTI"
      [] s = "SelDR" -> IF tms THEN "SelIR" ELSE "CapDR"
      [] s = "CapDR" -> IF tms THEN "Ex1DR" ELSE "ShDR"
      [] s = "ShDR"  -> IF tms THEN "Ex1DR" ELSE "ShDR"
      [] s = "Ex1DR" -> IF tms THEN "UpdDR" ELSE "PauDR"
      [] s = "PauDR" -> IF tms THEN "Ex2DR" ELSE "PauDR"
      [] s = "Ex2DR" -> IF tms THEN "UpdDR" ELSE "ShDR"
      [] s = "UpdDR" -> IF tms THEN "SelDR" ELSE "RTI"
      [] s = "SelIR" -> IF tms THEN "TLR"   ELSE "CapIR"
      [] s = "CapIR" -> IF tms THEN "Ex1IR" ELSE "ShIR"
      [] s = "ShIR"  -> IF tms THEN "Ex1IR" ELSE "ShIR"
      [] s = "Ex1IR" -> IF tms THEN "UpdIR" ELSE "PauIR"
      [] s = "PauIR" -> IF tms THEN "Ex2IR" ELSE "PauIR"
      [] s = "Ex2IR" -> IF tms THEN "UpdIR" ELSE "ShIR"
      [] s = "UpdIR" -> IF tms THEN "SelIR" ELSE "RTI"

RECURSIVE Concat(_)
Concat(ss) == IF ss = <<>> THEN <<>> ELSE Head(ss) \o Concat(Tail(ss))

\* IR scan path after reset: per device a 1 in the least significant bit,
\* zeros above it
IrPattern(c) == Concat([d \in 1..Len(c) |-> <<TRUE>> \o Rep(FALSE, c[d] - 1)])

\* IDCODE of device d (0-based), as limbs; distinct, odd, never all ones
IdcodeOf(d) == << 4097 + 2 * d, 17 + d >>

LimbBits(v) == [i \in 1..16 |-> (v \div Pow2(i - 1)) % 2 = 1]

\* DR scan path after reset: the 32-bit IDCODE registers
IdPath(c) == Concat([d \in 1..Len(c) |-> LimbBits(IdcodeOf(d - 1)[1]) \o LimbBits(IdcodeOf(d - 1)[2])])

\* first position of device d (1-based) in the IR scan path
IrStart(c, d) == SeqSum(SubSeq(c, 1, d - 1)) + 1

\* the instruction held by device d is BYPASS (all ones)
IsBypass(c, ir, d) == \A i \in IrStart(c, d)..(IrStart(c, d) + c[d] - 1) : ir[i]

\* DR scan path selected by the instructions in `ir`: one bypass bit per
\* device in BYPASS, DrLen bits otherwise; all cleared
DrPath(c, ir) == Concat([d \in 1..Len(c) |-> IF IsBypass(c, ir, d) THEN <<FALSE>> ELSE Rep(FALSE, DrLen)])

\* the level of data-out sampled after the rising edge; the line idles high
\* while no scan path drives it.  A faulty line is stuck low, stuck high, or
\* changes level with every clock.
Tdo == CASE line = "low"    -> FALSE
         [] line = "high"   -> TRUE
         [] line = "toggle" -> Len(log) % 2 = 1
         [] tap = "ShIR" /\ irsr # <<>> -> Head(irsr)
         [] tap = "ShDR" /\ drsr # <<>> -> Head(drsr)
         [] OTHER -> TRUE

\* one rising edge of the clock with the given data-in and mode-select
Edge(tdi, tms) ==
    LET nxt == TapNext(tap, tms)
        ir1 == IF tap = "ShIR" THEN Tail(irsr) \o <<tdi>> ELSE irsr
        dr1 == IF tap = "ShDR" THEN Tail(drsr) \o <<tdi>> ELSE drsr
    IN  /\ tap' = nxt
        /\ irsr' = IF nxt = "TLR" THEN IrPattern(chain) ELSE ir1
        /\ drsr' = CASE nxt = "TLR"   -> IdPath(chain)
                     [] nxt = "UpdIR" -> DrPath(chain, ir1)
                     [] OTHER         -> dr1


(***************************************************************************)
(* The engine: JtagAdapter.                                                *)
(***************************************************************************)
NoCall == [op |-> "none", value |-> 0, len |-> 0]
NoRet == [tag |-> "None", val |-> <<>>]
NoPrev == [call |-> NoCall, ret |-> NoRet]
NoArgs == [ir |-> FALSE, tdi |-> <<>>, should_end |-> FALSE, captures |-> FALSE]
NoLoc == [idcodes |-> <<>>, pre |-> FALSE, pos |-> FALSE, index |-> 0, status |-> 1]

\* JtagAdapter::new
new ==
    /\ state = "Unknown"
    /\ bits = <<>>
    /\ params = [pre |-> 0, pos |-> 0, select |-> 0, len |-> 0,
                 taps |-> [i \in 0..(TapsCap - 1) |-> 0]]

Started0 ==
    /\ new
    /\ pc = <<>> /\ k = 0 /\ args = NoArgs /\ loc = NoLoc
    /\ call = NoCall /\ ret = NoRet /\ prev = NoPrev
    /\ chain \in Chains
    /\ tap \in TapStates
    /\ irsr = IrPattern(chain)
    /\ drsr = IdPath(chain)
    /\ fails = 0 /\ rewires = 0 /\ log = <<>> /\ ready = "no"
    \* one access may be made before the first bring-up
    /\ accesses = MaxAccesses - 1

\* a run on a healthy bench
Init == Started0 /\ inject = FALSE /\ line = "chain"

\* a run on a bench that makes pin operations fail
InitFault == Started0 /\ inject = TRUE /\ line = "chain"

\* the behaviours of a data-out line that no chain drives
Lines == { "low", "high", "toggle" }

\* a run whose pin operations succeed on a bench with a faulty data-out line
InitLine == Started0 /\ inject = FALSE /\ line \in Lines

\* the statement a caller continues with when the call it made at `site` returns
Succ(site) ==
    CASE site = "init:383" -> "init:384"
      [] site = "init:384" -> "init:387"
      [] site = "init:392" -> "init:393"
      [] site = "init:393" -> "init:396"
      [] site = "init:396" -> "init:399"
      [] site = "init:399" -> "init:402"
      [] site = "init:402" -> "init:403"
      [] site = "init:403" -> "init:407"
      [] site = "scan_idcode:241" -> "scan_idcode:242"
      [] site = "shift_ir:333" -> "shift_ir:336"
      [] site = "shift_ir:336" -> "shift_ir:342"
      [] site = "shift_ir:342" -> "shift_ir:345"
      [] site = "shift_ir:345" -> "shift_ir:347"
      [] site = "shift_ir:347" -> "shift_ir:349"
      [] site = "shift_dr:359" -> "shift_dr:362"
      [] site = "shift_dr:362" -> "shift_dr:369"
      [] site = "shift_dr:369" -> "shift_dr:372"
      [] site = "shift_dr:372" -> "shift_dr:374"
      [] site = "shift_dr:374" -> "shift_dr:376"

\* the stack after the call made at the top frame `stack[1]` has returned Ok
Resume(stack) == << Succ(Head(stack)) >> \o Tail(stack)

\* the stack after the primitive on top of pc has returned Ok
Return == Resume(Tail(pc))

\* a panic ends the program
Panic ==
    /\ pc' = <<>>
    /\ ret' = [tag |-> "Panic", val |-> <<>>]

\* a caller that goes on after Err(Pin)
RaiseIgnored ==
    /\ pc' = pc
    /\ ret' = ret

\* The `?` of every caller hands Err(Pin) up to the public call, except
\* under `while let Ok(idcode) = self.scan_idcode()` (line 387), where any
\* Err only ends the loop.
Raise ==
    IF \E i \in DOMAIN pc : pc[i] = "init:387"
    THEN /\ pc' = << "init:392" >>
         /\ ret' = ret
    ELSE /\ pc' = <<>>
         /\ ret' = [tag |-> "Pin", val |-> <<>>]

\* What one raw shift_bit call may do (JtagIo::shift_bit): succeed, or fail
\* with Error::Pin.  A line that fails before the clock is raised (lines
\* 68-76) keeps the edge from the chain; reading data-out (line 80, only
\* when capturing) fails after it.
Outcomes(cap) ==
    { [ok |-> TRUE, edge |-> TRUE] }
    \cup (IF inject /\ fails < MaxFails
          THEN { [ok |-> FALSE, edge |-> e] : e \in (IF cap THEN BOOLEAN ELSE {FALSE}) }
          ELSE {})

\* RawJtagIo::shift_bit / JtagIo::shift_bit: one clock, logged
shift_bit(tdi, tms, cap, o) ==
    /\ log' = Append(log, [site |-> pc[Len(pc)], fn |-> Head(pc), tdi |-> tdi, tms |-> tms,
                           cap |-> cap, ok |-> o.ok])
    /\ fails' = IF o.ok THEN fails ELSE fails + 1
    /\ IF o.edge THEN Edge(tdi, tms) ELSE UNCHANGED device

\* One step of a primitive that clocks the arrays tdi/tms from index k on
\* (RawJtagIo::shift_bits and the loops of sequence_bits); `done` is the
\* tracked state the primitive sets after its last clock, "keep" for none.
Clocking(tdi, tms, cap, done) ==
    \E o \in Outcomes(cap) :
        /\ shift_bit(tdi[k + 1], tms[k + 1], cap, o)
        /\ IF ~o.ok
           THEN /\ Raise
                /\ k' = 0
                /\ UNCHANGED <<state, bits>>
           ELSE /\ bits' = IF cap THEN Append(bits, Tdo) ELSE bits
                /\ ret' = ret
                /\ IF k + 1 = Len(tdi)
                   THEN /\ pc' = Return
                        /\ k' = 0
                        /\ state' = IF done = "keep" THEN state ELSE done
                   ELSE /\ pc' = pc
                        /\ k' = k + 1
                        /\ state' = state
        /\ UNCHANGED <<params, args, loc, call, chain, line, inject, ready, rewires, accesses, prev>>

\* a reset of four clocks with mode-select high
reset_idle_short ==
    /\ pc # <<>> /\ Head(pc) = "reset_idle"
    /\ Clocking(Rep(TRUE, 5), Rep(TRUE, 4) \o <<FALSE>>, FALSE, "Idle")

\* JtagAdapter::reset_idle
reset_idle ==
    /\ pc # <<>> /\ Head(pc) = "reset_idle"
    /\ Clocking(Rep(TRUE, 6), Rep(TRUE, 5) \o <<FALSE>>, FALSE, "Idle")

\* an entry that stops one clock short of Shift
idle_shift_tms_short(ir) == (IF ir THEN <<TRUE>> ELSE <<>>) \o <<TRUE, FALSE>>

idle_shift_tms(ir) == (IF ir THEN <<TRUE>> ELSE <<>>) \o <<TRUE, FALSE, FALSE>>

\* JtagAdapter::idle_shift
idle_shift ==
    /\ pc # <<>> /\ Head(pc) = "idle_shift"
    /\ LET tms == idle_shift_tms(args.ir)
       IN Clocking(Rep(TRUE, Len(tms)), tms, FALSE, "Shift")

\* JtagAdapter::exit1_idle
exit1_idle ==
    /\ pc # <<>> /\ Head(pc) = "exit1_idle"
    /\ Clocking(<<TRUE, TRUE>>, <<TRUE, FALSE>>, FALSE, "keep")

\* a mode-select that is high on the last bit of every segment
sequence_bits_tms_ends(tdi, should_end) == [i \in 1..Len(tdi) |-> i = Len(tdi)]

\* mode-select of sequence_bits: high on the last bit of a terminal segment
sequence_bits_tms(tdi, should_end) == [i \in 1..Len(tdi) |-> should_end /\ i = Len(tdi)]

\* JtagAdapter::sequence_bits
sequence_bits ==
    /\ pc # <<>> /\ Head(pc) = "sequence_bits"
    /\ IF args.tdi = <<>>
       THEN \* line 204: tdi.len() - 1 overflows; a build with overflow checks
            \* panics there, one without panics at tdi[..last] when should_end
            \* and otherwise loops over nothing
            /\ \E checked \in (IF args.should_end THEN {TRUE} ELSE BOOLEAN) :
                   IF checked THEN Panic ELSE pc' = Return /\ ret' = ret
            /\ UNCHANGED <<state, bits, params, k, args, loc, call, chain, device,
                           line, inject, ready, fails, rewires, accesses, log, prev>>
       ELSE Clocking(args.tdi, sequence_bits_tms(args.tdi, args.should_end),
                     args.captures, "keep")

\* JtagAdapter::read_capture_bits leaves the buffer empty
read_capture_bits == bits' = <<>>

\* JtagAdapter::scan_idcode, after its sequence_bits call has returned, and
\* the loop of init (lines 387-389) that receives its result
scan_idcode ==
    /\ pc # <<>> /\ Head(pc) = "scan_idcode:242"
    /\ read_capture_bits
    /\ IF ~load_le_ok(bits, IdcodeBits)
       THEN Panic /\ loc' = loc
       ELSE LET value == load_le(bits, IdcodeBits)
            IN  IF value # AllOnes32
                THEN \* line 388: idcodes.push(idcode); a Vec that cannot
                     \* grow ends the program
                     IF Len(loc.idcodes) >= MaxIdcodes
                     THEN Panic /\ loc' = loc
                     ELSE /\ loc' = [loc EXCEPT !.idcodes = Append(@, value)]
                          /\ pc' = << "init:387" >>
                          /\ ret' = ret
                ELSE /\ loc' = loc
                     /\ pc' = << "init:392" >>
                     /\ ret' = ret
    /\ UNCHANGED <<state, params, k, args, call, chain, device, line, inject, ready, fails, rewires, accesses, log, prev>>

\* JtagAdapter::scan_tap, what it does with one captured bit: line 258 for
\* the first one, the body of the loop (lines 260-273) for the others, and
\* lines 274-275 when the loop ends
scan_tap_bit(v) ==
    IF Head(pc) = "scan_tap:258"
    THEN /\ loc' = [loc EXCEPT !.pre = v]
         /\ pc' = << "scan_tap:261" >> \o Tail(pc)
         /\ UNCHANGED <<params, ret>>
    ELSE IF ~v
    THEN \* status += 1 on a u8: at 255 a build with overflow checks panics,
         \* one without wraps to 0 and the loop ends
         IF loc.status = StatusMax
         THEN \E checked \in BOOLEAN :
                  IF checked
                  THEN Panic /\ UNCHANGED <<loc, params>>
                  ELSE /\ loc' = [loc EXCEPT !.pos = v, !.pre = v, !.status = 0]
                       /\ params' = [params EXCEPT !.len = loc.index]
                       /\ pc' = Resume(Tail(pc))
                       /\ ret' = ret
         ELSE /\ loc' = [loc EXCEPT !.pos = v, !.pre = v, !.status = @ + 1]
              /\ UNCHANGED <<params, pc, ret>>
    ELSE IF loc.pre # v
    THEN IF loc.index >= TapsCap
         THEN \* taps[index] is out of range
              Panic /\ UNCHANGED <<loc, params>>
         ELSE /\ loc' = [loc EXCEPT !.pos = v, !.pre = v, !.status = 1, !.index = @ + 1]
              /\ params' = [params EXCEPT !.taps[loc.index] = loc.status]
              /\ UNCHANGED <<pc, ret>>
    ELSE /\ loc' = [loc EXCEPT !.pos = v, !.status = 0]
         /\ params' = [params EXCEPT !.len = loc.index]
         /\ pc' = Resume(Tail(pc))
         /\ ret' = ret

\* JtagAdapter::scan_tap: one captured clock per step
scan_tap ==
    /\ pc # <<>> /\ Head(pc) \in { "scan_tap:258", "scan_tap:261" }
    /\ \E o \in Outcomes(TRUE) :
        /\ shift_bit(TRUE, FALSE, TRUE, o)
        /\ IF ~o.ok
           THEN Raise /\ UNCHANGED <<loc, params>>
           ELSE scan_tap_bit(Tdo)
    /\ UNCHANGED <<state, bits, k, args, call, chain, line, inject, ready, rewires, accesses, prev>>

\* a select_tap whose pos runs over the whole topology array
select_tap_whole(index) ==
    IF index >= params.len
    THEN /\ ret' = [tag |-> "TapNoValid", val |-> <<>>]
         /\ params' = params
    ELSE /\ params' = [params EXCEPT !.select = index,
                                     !.pre = Sum(params.taps, 0, index),
                                     !.pos = Sum(params.taps, index + 1, TapsCap)]
         /\ ret' = [tag |-> "Ok", val |-> <<>>]

\* a select_tap that accepts the index one past the last device
select_tap_loose(index) ==
    IF index > params.len
    THEN /\ ret' = [tag |-> "TapNoValid", val |-> <<>>]
         /\ params' = params
    ELSE /\ params' = [params EXCEPT !.select = index,
                                     !.pre = Sum(params.taps, 0, index),
                                     !.pos = Sum(params.taps, index + 1, params.len)]
         /\ ret' = [tag |-> "Ok", val |-> <<>>]

\* JtagAdapter::select_tap
select_tap(index) ==
    IF index >= params.len
    THEN /\ ret' = [tag |-> "TapNoValid", val |-> <<>>]
         /\ params' = params
    ELSE /\ params' = [params EXCEPT !.select = index,
                                     !.pre = Sum(params.taps, 0, index),
                                     !.pos = Sum(params.taps, index + 1, params.len)]
         /\ ret' = [tag |-> "Ok", val |-> <<>>]

\* the number of filler bits shift_fill computes (lines 303-313)
fill_nums(is_pre, is_ir) ==
    IF ~is_ir
    THEN IF is_pre THEN params.select ELSE params.len - params.select - 1
    ELSE IF is_pre THEN params.pre ELSE params.pos

\* JtagAdapter::shift_fill, called from the statement on top of pc
shift_fill(is_pre, is_ir) ==
    IF (~is_ir /\ ~is_pre /\ params.len < params.select + 1)
       \/ fill_nums(is_pre, is_ir) > TrueBoolsLen
    THEN \* len - select - 1 overflows, or TRUE_BOOLS[..nums] is out of range
         Panic /\ UNCHANGED <<args, k>>
    ELSE IF fill_nums(is_pre, is_ir) # 0
    THEN /\ pc' = << "sequence_bits" >> \o pc
         /\ args' = [args EXCEPT !.tdi = Rep(TRUE, fill_nums(is_pre, is_ir)),
                                 !.should_end = ~is_pre, !.captures = FALSE]
         /\ k' = 0
         /\ ret' = ret
    ELSE /\ pc' = Resume(pc)
         /\ UNCHANGED <<args, k, ret>>

\* The body shared by shift_ir and shift_dr: `l` are its
\* five call sites and its last statement, `ir` what it passes on, `cap`
\* the size of tdi_bits and `width` the integer it decodes.
shift_body(l, ir, cap, width) ==
    /\ pc # <<>> /\ Head(pc) \in { l[i] : i \in 1..6 }
    /\ UNCHANGED <<state, params, loc, call, chain, device, line, inject, ready, fails, rewires, accesses, log, prev>>
    /\ CASE Head(pc) = l[1] ->
              /\ pc' = << "idle_shift" >> \o pc
              /\ args' = [args EXCEPT !.ir = ir]
              /\ k' = 0
              /\ UNCHANGED <<bits, ret>>
         [] Head(pc) = l[2] -> shift_fill(TRUE, ir) /\ bits' = bits
         [] Head(pc) = l[3] ->
              /\ bits' = bits
              /\ IF call.len > cap
                 THEN Panic /\ UNCHANGED <<args, k>>
                 ELSE /\ pc' = << "sequence_bits" >> \o pc
                      /\ args' = [args EXCEPT !.tdi = tdi_bits(call.value, call.len),
                                              !.should_end = (params.pos = 0),
                                              !.captures = TRUE]
                      /\ k' = 0
                      /\ ret' = ret
         [] Head(pc) = l[4] -> shift_fill(FALSE, ir) /\ bits' = bits
         [] Head(pc) = l[5] ->
              /\ pc' = << "exit1_idle" >> \o pc
              /\ k' = 0
              /\ UNCHANGED <<bits, args, ret>>
         [] Head(pc) = l[6] ->
              /\ read_capture_bits
              /\ UNCHANGED <<args, k>>
              /\ IF ~load_le_ok(bits, width)
                 THEN Panic
                 ELSE /\ pc' = <<>>
                      /\ ret' = [tag |-> "Ok", val |-> load_le(bits, width)]

\* JtagAdapter::shift_ir
shift_ir ==
    shift_body(<< "shift_ir:333", "shift_ir:336", "shift_ir:342", "shift_ir:345",
                  "shift_ir:347", "shift_ir:349" >>, TRUE, IrBitsCap, 8)

\* JtagAdapter::shift_dr
shift_dr ==
    shift_body(<< "shift_dr:359", "shift_dr:362", "shift_dr:369", "shift_dr:372",
                  "shift_dr:374", "shift_dr:376" >>, FALSE, DrBitsCap, 64)

\* JtagAdapter::init: the statements that call a function or return
init ==
    /\ pc # <<>>
    /\ Head(pc) \in { "init:383", "init:384", "init:387", "init:393", "init:396", "init:399",
                      "init:403", "init:407" }
    /\ UNCHANGED <<state, bits, params, call, chain, device, line, inject, fails, rewires, accesses, log, prev>>
    /\ ready' = IF Head(pc) = "init:407" THEN "init" ELSE ready
    /\ CASE Head(pc) = "init:383" ->
              pc' = << "reset_idle" >> \o pc /\ k' = 0 /\ UNCHANGED <<args, loc, ret>>
         [] Head(pc) = "init:384" ->
              /\ pc' = << "idle_shift" >> \o pc /\ k' = 0
              /\ args' = [args EXCEPT !.ir = FALSE]
              /\ UNCHANGED <<loc, ret>>
         [] Head(pc) = "init:387" ->
              \* scan_idcode, line 241: sequence_bits(&[true; 32], false, true)
              /\ pc' = << "sequence_bits", "scan_idcode:241" >> \o pc /\ k' = 0
              /\ args' = [args EXCEPT !.tdi = Rep(TRUE, IdcodeBits), !.should_end = FALSE,
                                      !.captures = TRUE]
              /\ UNCHANGED <<loc, ret>>
         [] Head(pc) \in { "init:393", "init:403" } ->
              pc' = << "exit1_idle" >> \o pc /\ k' = 0 /\ UNCHANGED <<args, loc, ret>>
         [] Head(pc) = "init:396" ->
              /\ pc' = << "idle_shift" >> \o pc /\ k' = 0
              /\ args' = [args EXCEPT !.ir = TRUE]
              /\ UNCHANGED <<loc, ret>>
         [] Head(pc) = "init:399" ->
              /\ pc' = << "scan_tap:258" >> \o pc /\ k' = 0
              /\ loc' = [loc EXCEPT !.pre = FALSE, !.pos = FALSE, !.index = 0, !.status = 1]
              /\ UNCHANGED <<args, ret>>
         [] Head(pc) = "init:407" ->
              /\ pc' = <<>> /\ k' = 0
              /\ ret' = [tag |-> "Ok", val |-> loc.idcodes]
              /\ UNCHANGED <<args, loc>>

\* JtagAdapter::init, lines 392 and 402: the clock that leaves Shift
init_exit ==
    /\ pc # <<>> /\ Head(pc) \in { "init:392", "init:402" }
    /\ \E o \in Outcomes(FALSE) :
        /\ shift_bit(TRUE, TRUE, FALSE, o)
        /\ IF o.ok THEN pc' = Resume(pc) /\ ret' = ret ELSE Raise
    /\ UNCHANGED <<state, bits, params, k, args, loc, call, chain, line, inject, ready, rewires, accesses, prev>>

(***************************************************************************)
(* The caller of the engine and the bench the chain sits on.               *)
(***************************************************************************)
AtRest == pc = <<>> /\ ret.tag # "Panic"

\* register accesses explored after one bring-up: one fewer on a bench that
\* makes pin operations fail
Quota == IF inject THEN MaxAccesses - 1 ELSE MaxAccesses

\* after Error::Pin the caller runs the bring-up again before anything else
Usable == AtRest /\ ret.tag # "Pin"

Started(c, first) ==
    /\ AtRest
    /\ call' = c
    /\ prev' = CASE c.op = "init" -> NoPrev
                  [] call.op \in { "shift_ir", "shift_dr" } -> [call |-> call, ret |-> ret]
                  [] call.op = "select_tap" /\ ret.tag # "Ok" -> prev
                  [] OTHER -> NoPrev
    /\ pc' = first
    /\ log' = <<>>
    /\ k' = 0
    /\ loc' = NoLoc
    /\ args' = NoArgs

CallInit ==
    /\ Started([op |-> "init", value |-> 0, len |-> 0], << "init:383" >>)
    /\ ret' = NoRet
    /\ accesses' = 0
    /\ ready' = "no"
    /\ UNCHANGED <<state, bits, params, chain, device, line, inject, fails, rewires>>

\* the length of the longest simulated chain
MaxDevs == Len(CHOOSE c \in Chains : \A d \in Chains : Len(d) <= Len(c))
Lens == 0..MaxLen
Values(len) == 0..(Pow2(len) - 1)

CallSelectTap ==
    \E index \in 0..MaxDevs :
        /\ Usable
        /\ Started([op |-> "select_tap", value |-> index, len |-> 0], <<>>)
        /\ select_tap(index)
        /\ ready' = IF ready = "init" /\ index < params.len THEN "selected" ELSE ready
        /\ UNCHANGED <<state, bits, chain, device, line, inject, fails, rewires, accesses>>

CallShiftIr ==
    \E len \in Lens : \E value \in Values(len) :
        /\ Started([op |-> "shift_ir", value |-> value, len |-> len], << "shift_ir:333" >>)
        /\ ret' = NoRet
        /\ Usable
        /\ accesses < Quota
        /\ accesses' = accesses + 1
        /\ UNCHANGED <<state, bits, params, chain, device, line, inject, ready, fails, rewires>>

CallShiftDr ==
    \E len \in Lens : \E value \in Values(len) :
        /\ Started([op |-> "shift_dr", value |-> value, len |-> len], << "shift_dr:359" >>)
        /\ ret' = NoRet
        /\ Usable
        /\ accesses < Quota
        /\ accesses' = accesses + 1
        /\ UNCHANGED <<state, bits, params, chain, device, line, inject, ready, fails, rewires>>

\* another chain is put on the bench while the engine is at rest; the new
\* devices power up in Test-Logic-Reset
Rewire ==
    /\ Usable
    /\ rewires < MaxRewires
    /\ \E c \in Chains \ {chain} :
        /\ chain' = c
        /\ irsr' = IrPattern(c)
        /\ drsr' = IdPath(c)
    /\ tap' = "TLR"
    /\ rewires' = rewires + 1
    /\ call' = NoCall
    /\ prev' = NoPrev
    /\ ret' = NoRet
    /\ log' = <<>>
    /\ ready' = "no"
    /\ UNCHANGED <<state, bits, params, pc, k, args, loc, line, inject, fails, accesses>>

\* the engine and its caller
Run ==
    \/ CallInit \/ CallSelectTap \/ CallShiftIr \/ CallShiftDr
    \/ init \/ init_exit \/ reset_idle \/ idle_shift \/ exit1_idle \/ sequence_bits
    \/ scan_idcode \/ scan_tap \/ shift_ir \/ shift_dr

Next == Run \/ Rewire

\* every call sequence on a healthy bench whose chain may be exchanged
Spec == Init /\ [][Next]_vars

\* every call sequence on one chain whose pin operations may fail
SpecFault == InitFault /\ [][Run]_vars

\* the statements of a bring-up
BringUp ==
    \/ init \/ init_exit \/ reset_idle \/ idle_shift \/ exit1_idle \/ sequence_bits
    \/ scan_idcode \/ scan_tap

NextLine == CallInit \/ BringUp

\* every bring-up on a bench with a faulty data-out line.  The engine is
\* sequential code that nothing blocks (shift_bit only waits out a fixed
\* delay), so a bring-up that can take a step does take it.
SpecLine == InitLine /\ [][NextLine]_vars /\ WF_vars(BringUp)

(***************************************************************************)
(* Properties.                                                             *)
(***************************************************************************)
\* the public call `op` has returned Ok and nothing was called since
Returned(op) == pc = <<>> /\ call.op = op /\ ret.tag = "Ok"

\* the IR lengths the topology scan has recorded
Recorded == [d \in 1..params.len |-> params.taps[d - 1]]

\* C1: when init has returned Ok, the topology scan has recorded exactly
\* the IR lengths of the chain, in chain order, and the chain length is the
\* number of devices.
C1_TopologyRecovered ==
    Returned("init") => params.len = Len(chain) /\ Recorded = chain

\* C1, the case it names: on the chain [2,4,1] init returns Ok with the
\* lengths [2,4] recorded and a chain length of 2.
C1_LastDeviceMissed ==
    /\ Returned("init") /\ chain = <<2, 4, 1>>
    /\ params.len = 2 /\ Recorded = <<2, 4>>

\* the clocks the running (or last) public call has issued through
\* sequence_bits, i.e. between entering Shift and the Exit1 -> Idle clocks
Shifted == LET InShift(e) == e.fn = "sequence_bits" IN SelectSeq(log, InShift)

\* data-in and mode-select of a sequence of clocks
Wire(s) == [j \in 1..Len(s) |-> << s[j].tdi, s[j].tms >>]

\* the bits of `value`, least significant first
LsbFirst(value, len) == [j \in 1..len |-> (value \div Pow2(j - 1)) % 2 = 1]

\* a shift that ends on the last bit of `data` and nowhere else
EndsOnLast(data) == [j \in 1..Len(data) |-> << data[j], j = Len(data) >>]

\* a register access of at least one bit has returned Ok
Accessed(op) == Returned(op) /\ call.len >= 1

\* the sum of the IR lengths of the devices of the chain before / after device i
IrBefore(i) == SeqSum(SubSeq(chain, 1, i))
IrAfter(i) == SeqSum(SubSeq(chain, i + 2, Len(chain)))

\* C2: after a successful bring-up and a successful select_tap(i), shift_ir
\* emits in Shift-IR exactly pre filler clocks with data high, the payload
\* least significant bit first, and pos filler clocks with data high, pre and
\* pos being the sums of the IR lengths of the devices before and after i;
\* mode-select is high on the very last of these clocks and on no other.
C2_ShiftIrSegments ==
    (Accessed("shift_ir") /\ ready = "selected") =>
        Wire(Shifted) = EndsOnLast(Rep(TRUE, IrBefore(params.select))
                                   \o LsbFirst(call.value, call.len)
                                   \o Rep(TRUE, IrAfter(params.select)))

\* the filler clocks before the first and after the last captured clock of
\* a sequence of clocks
PreFill(s) == { j \in 1..Len(s) : \A i \in 1..j : ~s[i].cap }
PostFill(s) == { j \in 1..Len(s) : \A i \in j..Len(s) : ~s[i].cap }

\* C3: a register access whose post-fill count is zero clocks its last
\* payload bit with mode-select high and the two Exit1 -> Idle clocks come
\* next; one whose pre-fill count is zero starts with the payload; a fill
\* of zero length issues no clock.
C3_ZeroFillSilent ==
    \A op \in { "shift_ir", "shift_dr" } :
        Accessed(op) =>
            LET npre == IF op = "shift_ir" THEN params.pre ELSE params.select
                nopos == IF op = "shift_ir" THEN params.pos = 0
                         ELSE params.len = params.select + 1
                sh == Shifted
            IN  /\ npre = 0 => PreFill(sh) = {}
                /\ nopos => /\ PostFill(sh) = {}
                            /\ sh[Len(sh)].tms
                            /\ log[Len(log) - 2] = sh[Len(sh)]

\* C4: after a successful bring-up and a successful select_tap(i) on a
\* chain of N devices, shift_dr emits in Shift-DR exactly i filler clocks
\* with data high, the payload least significant bit first, and N-i-1 filler
\* clocks with data high; the last payload clock has mode-select high if and
\* only if N-i-1 = 0.
C4_ShiftDrSegments ==
    (Accessed("shift_dr") /\ ready = "selected") =>
        LET i == params.select
            after == Len(chain) - i - 1
            sh == Shifted
        IN  /\ [j \in 1..Len(sh) |-> sh[j].tdi]
                   = Rep(TRUE, i) \o LsbFirst(call.value, call.len) \o Rep(TRUE, after)
            /\ \A j \in 1..Len(sh) : sh[j].cap <=> (j > i /\ j <= i + call.len)
            /\ sh[i + call.len].tms <=> (after = 0)

\* the length of the register of the selected device that `op` accesses
RegLen(op) ==
    IF op = "shift_ir" THEN chain[params.select + 1]
    ELSE IF IsBypass(chain, irsr, params.select + 1) THEN 1 ELSE DrLen

\* C5: when an access of the full length of the selected device's register
\* follows an access of the same kind and length that wrote V, with the
\* same device selected, it returns V.
C5_RoundTrip ==
    \A op \in { "shift_ir", "shift_dr" } :
        ( /\ Accessed(op) /\ ready = "selected"
          /\ prev.call.op = op /\ prev.ret.tag = "Ok"
          /\ prev.call.len = call.len
          /\ call.len = RegLen(op) )
        => ret.val = Limbs(prev.call.value, IF op = "shift_ir" THEN 8 ELSE 64)

\* the capturing clocks of the IDCODE scans of init
IdcodeClocks == LET Scan(e) == e.site = "init:387" /\ e.cap IN SelectSeq(log, Scan)

\* C6: init returns the IDCODEs of the N devices of the chain, in chain
\* order, each decoded with its first captured bit as bit 0; it has run
\* N+1 IDCODE scans of 32 clocks, the last one being the one that ends the
\* loop.
C6_IdcodesEnumerated ==
    Returned("init") =>
        /\ ret.val = [d \in 1..Len(chain) |-> IdcodeOf(d - 1)]
        /\ Len(IdcodeClocks) = IdcodeBits * (Len(chain) + 1)

\* C6: a chain of three devices has been enumerated
C6_ThreeEnumerated ==
    Returned("init") /\ Len(chain) = 3 /\ Len(ret.val) = 3

\* C7: when reset_idle has returned it has issued six clocks with data
\* high, the first five with mode-select high and the last with mode-select
\* low, the controller is in Run-Test/Idle whatever state it was in, and the
\* tracked state is Idle; so it is every time reset_idle is invoked.
C7_ResetIdle ==
    (pc # <<>> /\ Head(pc) = "init:384") =>
        /\ Wire(log) = [j \in 1..6 |-> << TRUE, j <= 5 >>]
        /\ tap = "RTI"
        /\ state = "Idle"

\* C7: reset_idle has returned for the second time
C7_ResetAgain ==
    pc # <<>> /\ Head(pc) = "init:384" /\ params.len > 0 /\ state = "Idle"

\* C8: in shift_ir and shift_dr a failed shift_bit call is the last clock
\* of the access, and the access has returned Error::Pin with no value.
C8_AccessAborts ==
    call.op \in { "shift_ir", "shift_dr" } =>
        \A j \in 1..Len(log) :
            ~log[j].ok => /\ j = Len(log)
                          /\ pc = <<>>
                          /\ ret = [tag |-> "Pin", val |-> <<>>]

\* C8: shift_ir has failed on a clock of its post-fill
C8_PostFillFailed ==
    /\ call.op = "shift_ir" /\ log # <<>>
    /\ ~log[Len(log)].ok /\ log[Len(log)].site = "shift_ir:345"

\* C9: when a shift_bit call has failed while init was running, init has
\* returned Error::Pin and the failed call was its last clock.
C9_InitFatal ==
    (pc = <<>> /\ call.op = "init" /\ \E j \in 1..Len(log) : ~log[j].ok) =>
        ret.tag = "Pin" /\ ~log[Len(log)].ok

\* C9: init has returned Ok although one of its shift_bit calls failed
C9_OkDespiteFailure ==
    Returned("init") /\ \E j \in 1..Len(log) : ~log[j].ok

\* C10: select_tap(index) with index >= params.len returns TapNoValid,
\* leaves params as it is and issues no clock; with index < params.len it
\* returns Ok and selects index.
C10_SelectTap ==
    [][call'.op = "select_tap" =>
          IF call'.value >= params.len
          THEN /\ ret'.tag = "TapNoValid"
               /\ params' = params
               /\ log' = <<>>
               /\ UNCHANGED device
          ELSE /\ ret'.tag = "Ok"
               /\ params'.select = call'.value]_vars

\* C10: after a bring-up select_tap has refused an index
C10_Refused ==
    /\ pc = <<>> /\ call.op = "select_tap" /\ ret.tag = "TapNoValid"
    /\ params.len > 0 /\ call.value >= params.len

\* C11: a select_tap(index) that returns Ok records index as the selection,
\* sets pre to the sum of the recorded IR lengths of the devices before
\* index and pos to the sum of those after it up to the chain length, and
\* changes nothing else of the parameters; entries of the topology array at
\* or beyond the chain length do not count.
C11_SelectSums ==
    [][(call'.op = "select_tap" /\ ret'.tag = "Ok") =>
          params' = [params EXCEPT
                        !.select = call'.value,
                        !.pre = SeqSum(SubSeq(Recorded, 1, call'.value)),
                        !.pos = SeqSum(SubSeq(Recorded, call'.value + 2, params.len))]]_vars

\* C11: select_tap has returned Ok while the topology array holds a stale
\* entry beyond the chain length
C11_StaleIgnored ==
    /\ Returned("select_tap") /\ params.len = 1
    /\ params.taps[1] > 0 /\ params.pos = 0

\* C12: when a bring-up or a register access has returned Ok the tracked
\* state is Idle; the tracked state is Shift only while an operation runs.
C12_IdleAtRest ==
    /\ (Returned("init") \/ Returned("shift_ir") \/ Returned("shift_dr")) => state = "Idle"
    /\ AtRest => state # "Shift"

\* C12: init has returned Ok and has left the tracked state Shift
C12_ShiftAtRest ==
    Returned("init") /\ state = "Shift" /\ tap = "RTI"

\* C13: the selected index is less than the chain length in every state.
C13_SelectInRange ==
    params.select < params.len

\* C13: a repeated init has found one device while device 1 is selected
C13_StaleSelection ==
    Returned("init") /\ params.len = 1 /\ params.select = 1

\* C14: a register access invoked while the tracked state is Unknown
\* issues no clock and returns the invalid-state error (Error::State).
C14_StateChecked ==
    (call.op \in { "shift_ir", "shift_dr" } /\ state = "Unknown") =>
        /\ log = <<>>
        /\ pc = <<>> => ret.tag = "State"

\* C14: shift_ir, called before any bring-up, has clocked the chain and
\* returned Ok
C14_AccessBeforeBringUp ==
    Returned("shift_ir") /\ ready = "no" /\ rewires = 0 /\ Len(log) > 0

\* sequence_bits is running on a non-empty array
Sequencing == pc # <<>> /\ Head(pc) = "sequence_bits" /\ args.tdi # <<>>

\* C15: every step of sequence_bits on a non-empty array issues one clock
\* that carries the next element of the array, with mode-select high if and
\* only if it is the last element and the terminal flag is set; it appends
\* one bit to the capture buffer when capture is requested and leaves the
\* buffer alone otherwise; sequence_bits starts at the first element and
\* returns after the last.
C15_SequenceBits ==
    [][ /\ Sequencing =>
            /\ k < Len(args.tdi)
            /\ Len(log') = Len(log) + 1
            /\ SubSeq(log', 1, Len(log)) = log
            /\ log'[Len(log')].tdi = args.tdi[k + 1]
            /\ log'[Len(log')].tms = (args.should_end /\ k + 1 = Len(args.tdi))
            /\ IF args.captures
               THEN Len(bits') = Len(bits) + 1 /\ SubSeq(bits', 1, Len(bits)) = bits
               ELSE bits' = bits
            /\ IF k + 1 < Len(args.tdi)
               THEN pc' = pc /\ k' = k + 1 /\ args' = args
               ELSE pc' # <<>> /\ Head(pc') # "sequence_bits"
        /\ (~Sequencing /\ Sequencing') => k' = 0 ]_vars

\* C15: a terminal segment of one bit has been clocked: one clock, with
\* mode-select high
C15_OneBitTerminal ==
    /\ Returned("shift_ir") /\ call.len = 1
    /\ Len(Shifted) = 1 /\ Shifted[1].tms /\ Shifted[1].cap

\* the physical controller state at which init stands at each of its
\* statements, when the bring-up is in order
InitOrder ==
    CASE pc = << "init:384" >> -> tap = "RTI"
      [] Head(pc) = "sequence_bits" -> tap = "ShDR"
      [] Head(pc) = "scan_idcode:242" -> tap = "ShDR"
      [] pc = << "init:387" >> -> tap = "ShDR"
      [] pc = << "init:392" >> -> tap = "ShDR"
      [] pc = << "init:393" >> -> tap = "Ex1DR"
      [] pc = << "exit1_idle", "init:393" >> -> tap = (IF k = 0 THEN "Ex1DR" ELSE "UpdDR")
      [] pc = << "init:396" >> -> tap = "RTI"
      [] pc = << "init:399" >> -> tap = "ShIR"
      [] Head(pc) \in { "scan_tap:258", "scan_tap:261" } -> tap = "ShIR"
      [] pc = << "init:402" >> -> tap = "ShIR"
      [] pc = << "init:403" >> -> tap = "Ex1IR"
      [] pc = << "exit1_idle", "init:403" >> -> tap = (IF k = 0 THEN "Ex1IR" ELSE "UpdIR")
      [] pc = << "init:407" >> -> tap = "RTI"
      [] OTHER -> TRUE

\* C16: init, started with the controller in any state, stands in
\* Run-Test/Idle after the reset, in Shift-DR at every clock of every IDCODE
\* scan, goes through Exit1-DR and Update-DR to Run-Test/Idle, stands in
\* Shift-IR at every clock of the topology scan, goes through Exit1-IR and
\* Update-IR, and is in Run-Test/Idle when it returns; no clock of the
\* topology scan comes before a clock of an IDCODE scan.
C16_BringUpOrder ==
    call.op = "init" =>
        /\ pc # <<>> => InitOrder
        /\ Returned("init") => tap = "RTI"
        /\ \A i, j \in 1..Len(log) :
               (log[i].site = "init:399" /\ log[j].site = "init:387") => j < i

\* C16: init has returned Ok after IDCODE scans and a topology scan
C16_BroughtUp ==
    /\ Returned("init") /\ tap = "RTI"
    /\ \E i, j \in 1..Len(log) : log[i].site = "init:387" /\ log[j].site = "init:399"

\* the clocks issued in Shift with mode-select high
Exits == { j \in 1..Len(Shifted) : Shifted[j].tms }

\* C17: after a bring-up that returned Ok and recorded at least one device,
\* whatever select_tap calls were made since, a register access of at least
\* one bit that returns Ok has issued exactly one clock with mode-select
\* high in Shift and leaves the controller in Run-Test/Idle.
C17_OneExit ==
    \A op \in { "shift_ir", "shift_dr" } :
        (Accessed(op) /\ ready # "no" /\ params.len >= 1) =>
            Cardinality(Exits) = 1 /\ tap = "RTI"

\* C17: shift_dr, called after a bring-up of two devices and no select_tap,
\* has returned Ok with two mode-select-high clocks in Shift and the
\* controller in Capture-DR
C17_TwoExits ==
    /\ Accessed("shift_dr") /\ ready = "init" /\ params.len = 2 /\ rewires = 0
    /\ Cardinality(Exits) = 2 /\ tap = "CapDR"

\* C18: the capture buffer is empty whenever the engine is at rest, so it is
\* empty at the start of every init, shift_ir and shift_dr call, operations
\* aborted by Error::Pin included.
C18_BufferScoped ==
    AtRest => bits = <<>>

\* C18: shift_ir has returned Error::Pin and the bits it had captured are
\* still in the buffer
C18_AbortLeavesBits ==
    /\ pc = <<>> /\ call.op = "shift_ir" /\ ret.tag = "Pin"
    /\ bits # <<>>


\* C19: no unsigned subtraction of a register access underflows: where
\* shift_dr computes its post-fill count, len - select - 1 is at least 0,
\* and where sequence_bits computes its last index, tdi.len() - 1 is at
\* least 0
C19_NoUnderflow ==
    /\ (pc # <<>> /\ Head(pc) = "shift_dr:372") =>
           params.len - params.select - 1 >= 0
    /\ (pc # <<>> /\ Head(pc) = "sequence_bits") =>
           Len(args.tdi) - 1 >= 0

\* C19: after a bring-up that found no device, shift_dr is about to compute
\* its post-fill count
C19_EmptyChainFill ==
    /\ call.op = "shift_dr" /\ ready = "init" /\ params.len = 0
    /\ pc # <<>> /\ Head(pc) = "shift_dr:372"


\* C20: bring-up terminates: when no pin operation fails, a call of init
\* returns, whatever the data-out line does
C20_InitReturns ==
    (call.op = "init" /\ pc # <<>>) ~> (pc = <<>> /\ ret.tag \in { "Ok", "Pin" })

\* C20: with data-out stuck low the IDCODE loop has taken two words of
\* zeros for idcodes and starts another scan
C20_LowScannedOn ==
    /\ line = "low" /\ fails = 0
    /\ pc = << "init:387" >>
    /\ loc.idcodes = << <<0, 0>>, <<0, 0>> >>

============================================================================
